---- MODULE Spec2Model ----
(***************************************************************************)
(* pyparsing/unicode.py: the lazy class property (_lazyclassproperty) and  *)
(* the unicode_set class with its derived character strings.               *)
(*                                                                         *)
(* A class is a name; a character is its codepoint (an integer); a str or  *)
(* a list of characters is a sequence of codepoints.  A class statement    *)
(* gives a class its bases and, optionally, its own _ranges attribute.     *)
(* The _intern attribute of a class is a reference to a dict of the heap.  *)
(***************************************************************************)
EXTENDS Integers, Sequences, FiniteSets, TLC

VARIABLES
    bases,      \* class -> the bases of its class statement, in order
    mro,        \* class -> its __mro__, set when the class is created
    ranges,     \* class -> its own _ranges attribute: [own, list]
    ctype,      \* the runtime's predicates: name -> the codepoints it accepts
    intern,     \* class -> its own _intern attribute: 0 (none) or a heap address
    heap,       \* heap address -> dict: property name -> [val, by]
    computes,   \* <<class, property>> -> how many times fn(cls) was invoked
    last,       \* what the last property read gave its caller
    nreads,     \* property reads made so far
    limit,      \* property reads the run makes at most
    th          \* thread -> the position of its __get__ call

vars == <<bases, mro, ranges, ctype, intern, heap, computes, last, nreads, limit, th>>

(***************************************************************************)
(* Bounds.                                                                 *)
(***************************************************************************)
MaxReads == 2

MaxCharReads == 1

(***************************************************************************)
(* Program constants.                                                      *)
(***************************************************************************)
\* chr() accepts 0 .. sys.maxunicode
MaxUnicode == 1114111

Root == "unicode_set"

\* a class statement without a _ranges line, and one with _ranges = list
NoAttr == [own |-> FALSE, list |-> <<>>]

Own(list) == [own |-> TRUE, list |-> list]

Props == {"_chars_for_ranges", "printables", "alphas", "nums", "alphanums",
          "identchars", "identbodychars"}

\* "ABCDEFGHIJKLMNOPQRSTUVWXYZabcdefghijklmnopqrstuvwxyzªµº"
\* "ÀÁÂÃÄÅÆÇÈÉÊËÌÍÎÏÐÑÒÓÔÕÖØÙÚÛÜÝÞßàáâãäåæçèéêëìíîïðñòóôõöøùúûüýþÿ" "_"
IdentCharsLiteral ==
    (65..90) \cup (97..122) \cup {170, 181, 186}
        \cup (192..214) \cup (216..246) \cup (248..255) \cup {95}

\* "0123456789·"
IdentBodyLiteral == (48..57) \cup {183}

(***************************************************************************)
(* Python built-ins the code uses.                                         *)
(***************************************************************************)
\* RangeList with the bounds put in order first: range(min, max + 1)
RangeListEitherWay(lo, hi) ==
    IF hi < lo THEN [i \in 1..(lo - hi + 1) |-> hi + i - 1]
    ELSE [i \in 1..(hi - lo + 1) |-> lo + i - 1]

\* range(lo, hi + 1) as a list
RangeList(lo, hi) == [i \in 1..(hi - lo + 1) |-> lo + i - 1]

\* set(xs)
SetOf(xs) == {xs[i] : i \in DOMAIN xs}

\* sorted(xs) of a list: ascending, duplicates kept
SortedList(xs) == SortSeq(xs, LAMBDA a, b : a < b)

RECURSIVE SortedIn(_, _, _)
\* the elements of S, all in lo..hi, ascending (by bisection of lo..hi)
SortedIn(S, lo, hi) ==
    IF S = {} THEN <<>>
    ELSE IF lo = hi THEN <<lo>>
    ELSE LET mid == (lo + hi) \div 2
         IN  SortedIn({x \in S : x <= mid}, lo, mid)
                 \o SortedIn({x \in S : x > mid}, mid + 1, hi)

\* the codepoints 0..255 and the few beyond them that the checked programs
\* use, ascending
Alphabet == [i \in 1..256 |-> i - 1] \o <<945, 946, 1632, 1633, 1114111>>

AlphabetSet == (0..255) \cup {945, 946, 1632, 1633, 1114111}

\* sorted(S) of a set of characters
Sorted(S) ==
    IF S \subseteq AlphabetSet THEN SelectSeq(Alphabet, LAMBDA c : c \in S)
    ELSE SortedIn(S, 0, MaxUnicode)

\* filter(pred, xs), joined
Filter(pred, xs) == SelectSeq(xs, LAMBDA c : c \in ctype[pred])

\* chr(c) raises ValueError outside range(0x110000)
ChrOk(c) == c >= 0 /\ c <= MaxUnicode

(***************************************************************************)
(* Classes: method resolution order (C3) and attribute lookup.             *)
(***************************************************************************)
Classes == DOMAIN bases

RECURSIVE Merge(_)
\* the C3 merge of the lists ls
Merge(ls) ==
    LET ne == SelectSeq(ls, LAMBDA l : l # <<>>)
    IN  IF ne = <<>> THEN <<>>
        ELSE LET good(i) == \A j \in DOMAIN ne : Head(ne[i]) \notin SetOf(Tail(ne[j]))
                 k == CHOOSE i \in DOMAIN ne :
                        good(i) /\ \A j \in 1..(i - 1) : ~good(j)
                 h == Head(ne[k])
             IN  <<h>> \o Merge([i \in DOMAIN ne |->
                                   IF Head(ne[i]) = h THEN Tail(ne[i]) ELSE ne[i]])

RECURSIVE Mro(_, _)
\* the __mro__ of class c under the class statements L (object, which has none
\* of the attributes read here, left out)
Mro(L, c) ==
    <<c>> \o Merge([i \in 1..(Len(L[c]) + 1) |->
                      IF i <= Len(L[c]) THEN Mro(L, L[c][i]) ELSE L[c]])

RECURSIVE FirstOwner(_, _)
\* the first class of the list m that has the attribute itself; "" when none has
FirstOwner(m, own) ==
    IF m = <<>> THEN ""
    ELSE IF own[Head(m)] THEN Head(m) ELSE FirstOwner(Tail(m), own)

\* attribute lookup on class c: the class of c's mro that provides the attribute
Provider(c, own) == FirstOwner(mro[c], own)

\* getattr(cc, "_ranges", ())
GetRanges(cc) ==
    LET p == Provider(cc, [k \in Classes |-> ranges[k].own])
    IN  IF p = "" THEN <<>> ELSE ranges[p].list

(***************************************************************************)
(* unicode_set: the compute functions (the fn of each lazy property).      *)
(* A result is [st, ok, val, err]: the caches after the call, and the      *)
(* value returned (ok) or the exception raised (~ok).                      *)
(***************************************************************************)
Returns(st, v) == [st |-> st, ok |-> TRUE, val |-> v, err |-> ""]

Raises(st, e) == [st |-> st, ok |-> FALSE, val |-> <<>>, err |-> e]

\* ExpandRange that expands 2-tuples only and passes over a (x,)
ExpandRangePairsOnly(rr) == IF Len(rr) = 2 THEN RangeList(rr[1], rr[2]) ELSE <<>>

\* range(rr[0], rr[-1] + 1)
ExpandRange(rr) == RangeList(rr[1], rr[Len(rr)])

RECURSIVE ExtendRanges(_)
\* ret.extend(...) for each rr of one class's _ranges
ExtendRanges(rs) ==
    IF rs = <<>> THEN <<>>
    ELSE ExpandRange(Head(rs)) \o ExtendRanges(Tail(rs))

RECURSIVE WalkMro(_)
\* the loop over cls.__mro__, left at unicode_set
WalkMro(m) ==
    IF m = <<>> \/ Head(m) = Root THEN <<>>
    ELSE ExtendRanges(GetRanges(Head(m))) \o WalkMro(Tail(m))

\* SortedChars without set(): sorted(chr(c) for c in ret)
SortedCharsNoSet(ret) == SortedList(ret)

\* sorted(chr(c) for c in set(ret)), once every chr(c) is known to succeed
SortedChars(ret) == Sorted(SetOf(ret))

\* CharsForRanges that skips what chr() rejects instead of raising
CharsForRangesClamped(st, c) ==
    LET ret == WalkMro(mro[c])
    IN  Returns(st, SortedChars(SelectSeq(ret, ChrOk)))

\* fn of _chars_for_ranges
CharsForRanges(st, c) ==
    LET ret == WalkMro(mro[c])
    IN  IF \E i \in DOMAIN ret : ~ChrOk(ret[i])
        THEN Raises(st, "ValueError")
        ELSE Returns(st, SortedChars(ret))

\* IdentCharsSet without the literal
IdentCharsSetNoLiteral(found) == found

\* set(filter(str.isidentifier, ...)) | set("ABC...xyz..._")
IdentCharsSet(found) == found \cup IdentCharsLiteral

\* IdentBodySet without set(cls.identchars)
IdentBodySetNoStart(found, identchars) == found \cup IdentBodyLiteral

\* identifier_chars | set(cls.identchars) | set("0123456789·")
IdentBodySet(found, identchars) == found \cup SetOf(identchars) \cup IdentBodyLiteral

\* the predicate printables hands to filter()
PrintablesFilter(chars) == Filter("isspace", chars)

(***************************************************************************)
(* _lazyclassproperty.__get__                                              *)
(***************************************************************************)
\* the object cls._intern evaluates to: 0 when hasattr(cls, "_intern") is false
InternOf(in, c) ==
    LET p == Provider(c, [k \in Classes |-> in[k] # 0])
    IN  IF p = "" THEN 0 ELSE in[p]

\* Inherited over the whole of cls.__mro__, cls included
InheritedFromSelf(in, c) ==
    \E i \in 1..Len(mro[c]) :
        InternOf(in, mro[c][i]) # 0 /\ InternOf(in, c) = InternOf(in, mro[c][i])

\* cls._intern is getattr(superclass, "_intern", []) for a superclass of cls.__mro__[1:]
Inherited(in, c) ==
    \E i \in 2..Len(mro[c]) :
        InternOf(in, mro[c][i]) # 0 /\ InternOf(in, c) = InternOf(in, mro[c][i])

\* NeedsOwnIntern as "if not hasattr(cls, '_intern')" alone
NeedsOwnInternIfAbsent(in, c) == InternOf(in, c) = 0

\* the condition of the first if
NeedsOwnIntern(in, c) == InternOf(in, c) = 0 \/ Inherited(in, c)

\* cls._intern = {}
InstallIntern(st, c) ==
    [st EXCEPT !.heap = Append(@, <<>>), !.intern[c] = Len(st.heap) + 1]

\* d[attrname] = v
DictSet(d, k, v) == [x \in DOMAIN d \cup {k} |-> IF x = k THEN v ELSE d[x]]

\* cls._intern[attrname] = value, value having been computed by fn(c)
StoreIntern(st, c, p, v) ==
    [st EXCEPT !.heap[InternOf(st.intern, c)] = DictSet(@, p, [val |-> v, by |-> c])]

\* return cls._intern[attrname]
LoadIntern(st, c, p) ==
    LET d == st.heap[InternOf(st.intern, c)]
    IN  IF p \in DOMAIN d THEN Returns(st, d[p].val) ELSE Raises(st, "KeyError")

Counted(st, c, p) == [st EXCEPT !.computes[<<c, p>>] = @ + 1]

RECURSIVE Get(_, _, _)
RECURSIVE Fn(_, _, _)
\* descriptor.__get__(None, c) of the property named p
Get(st, c, p) ==
    LET st1 == IF NeedsOwnIntern(st.intern, c) THEN InstallIntern(st, c) ELSE st
    IN  IF p \in DOMAIN st1.heap[InternOf(st1.intern, c)]
        THEN LoadIntern(st1, c, p)
        ELSE LET r == Fn(Counted(st1, c, p), c, p)
             IN  IF r.ok THEN LoadIntern(StoreIntern(r.st, c, p, r.val), c, p) ELSE r

\* self.fn(cls): the body of the property named p
Fn(st, c, p) ==
    CASE p = "_chars_for_ranges" -> CharsForRanges(st, c)
      [] p = "printables" ->
            LET r == Get(st, c, "_chars_for_ranges")
            IN  IF r.ok THEN Returns(r.st, PrintablesFilter(r.val)) ELSE r
      [] p = "alphas" ->
            LET r == Get(st, c, "_chars_for_ranges")
            IN  IF r.ok THEN Returns(r.st, Filter("isalpha", r.val)) ELSE r
      [] p = "nums" ->
            LET r == Get(st, c, "_chars_for_ranges")
            IN  IF r.ok THEN Returns(r.st, Filter("isdigit", r.val)) ELSE r
      [] p = "alphanums" ->
            LET a == Get(st, c, "alphas")
            IN  IF ~a.ok THEN a
                ELSE LET n == Get(a.st, c, "nums")
                     IN  IF n.ok THEN Returns(n.st, a.val \o n.val) ELSE n
      [] p = "identchars" ->
            LET r == Get(st, c, "_chars_for_ranges")
            IN  IF r.ok
                THEN Returns(r.st,
                             Sorted(IdentCharsSet(SetOf(Filter("isidentifier", r.val)))))
                ELSE r
      [] p = "identbodychars" ->
            LET r == Get(st, c, "_chars_for_ranges")
            IN  IF ~r.ok THEN r
                ELSE LET i == Get(r.st, c, "identchars")
                     IN  IF i.ok
                         THEN Returns(i.st,
                                      Sorted(IdentBodySet(
                                          SetOf(Filter("isidentbody", r.val)), i.val)))
                         ELSE i

(***************************************************************************)
(* The programs checked: class statements and the runtime's predicates.    *)
(***************************************************************************)
\* str.isspace, str.isalpha, str.isdigit, str.isidentifier and
\* ("_" + c).isidentifier() of CPython on the codepoints the ranges below cover
UnicodeData ==
    [isspace      |-> (9..13) \cup (28..32) \cup {133, 160},
     isalpha      |-> (65..90) \cup (97..122) \cup (192..214) \cup (216..246)
                        \cup (248..255) \cup (945..946) \cup {170, 181, 186},
     isdigit      |-> (48..57) \cup (178..179) \cup (1632..1633) \cup {185},
     isidentifier |-> (65..90) \cup (97..122) \cup (192..214) \cup (216..246)
                        \cup (248..255) \cup (945..946) \cup {95, 170, 181, 186},
     isidentbody  |-> (48..57) \cup (65..90) \cup (97..122) \cup (192..214)
                        \cup (216..246) \cup (248..255) \cup (945..946)
                        \cup (1632..1633) \cup {95, 170, 181, 183, 186}]

\* class A(unicode_set); class B(A); class C(A); class D(B, C)
Diamond ==
    [unicode_set |-> <<>>, A |-> <<Root>>, B |-> <<"A">>, C |-> <<"A">>,
     D |-> <<"B", "C">>]

\* class A(unicode_set); class B(unicode_set); class C(A, B); class D(B, A)
TwoParents ==
    [unicode_set |-> <<>>, A |-> <<Root>>, B |-> <<Root>>, C |-> <<"A", "B">>,
     D |-> <<"B", "A">>]

Lattices == {Diamond}

\* the _ranges a class of the cache scenarios declares by default: its own letters
OwnLetters(c) ==
    CASE c = "A" -> Own(<< <<65, 66>> >>)
      [] c = "B" -> Own(<< <<66, 67>>, <<48>>, <<32, 33>> >>)
      [] c = "C" -> Own(<< <<67, 68>> >>)
      [] c = "D" -> Own(<< <<67, 68>> >>)

\* a range that reaches past sys.maxunicode
OutOfDomain == Own(<< <<1114111, 1114112>> >>)

\* every class declares its own letters, or all but B, which declares an
\* out-of-domain range
CacheRanges(L) ==
    LET dflt == [c \in DOMAIN L |-> IF c = Root THEN Own(<<>>) ELSE OwnLetters(c)]
    IN  {dflt, [dflt EXCEPT !["B"] = OutOfDomain]}

\* every class declares its own letters, but for at most one class, which has
\* no _ranges of its own or an empty list
ValidRanges(L) ==
    LET ds == DOMAIN L \ {Root}
        dflt == [c \in DOMAIN L |-> IF c = Root THEN Own(<<>>) ELSE OwnLetters(c)]
    IN  {dflt} \cup {[dflt EXCEPT ![c] = r] : c \in ds, r \in {NoAttr, Own(<<>>)}}

\* as ValidRanges, the one class being the last one declared
ThreadRanges(L) ==
    {r \in ValidRanges(L) : \A c \in DOMAIN L \ {"D", Root} : r[c] = OwnLetters(c)}

NoReads == [cls |-> "", prop |-> "", ok |-> TRUE, val |-> <<>>, err |-> ""]

InitCaches ==
    /\ intern = [c \in Classes |-> 0]
    /\ heap = <<>>
    /\ computes = [k \in Classes \X Props |-> 0]
    /\ last = NoReads
    /\ nreads = 0
    /\ th = <<>>

Init ==
    /\ \E L \in Lattices :
          /\ bases = L
          /\ mro = [c \in DOMAIN L |-> Mro(L, c)]
          /\ ranges \in CacheRanges(L)
    /\ ctype = UnicodeData
    /\ limit = MaxReads
    /\ InitCaches

\* the program reads c.p (getattr(c, p)): the descriptor's __get__, whole
Read(c, p) ==
    /\ nreads < limit
    /\ LET r == Get([intern |-> intern, heap |-> heap, computes |-> computes], c, p)
       IN  /\ intern' = r.st.intern
           /\ heap' = r.st.heap
           /\ computes' = r.st.computes
           /\ last' = [cls |-> c, prop |-> p, ok |-> r.ok, val |-> r.val, err |-> r.err]
    /\ nreads' = nreads + 1
    /\ UNCHANGED <<bases, mro, ranges, ctype, limit, th>>

Next == \E c \in Classes, p \in Props : Read(c, p)

Spec == Init /\ [][Next]_vars

(***************************************************************************)
(* The programs checked for the character strings: many range lists and    *)
(* predicates, few reads.                                                  *)
(***************************************************************************)
\* class A(unicode_set); class B(unicode_set)
Pair == [unicode_set |-> <<>>, A |-> <<Root>>, B |-> <<Root>>]

\* predicates that answer unlike any real runtime's
OddData ==
    [isspace      |-> {48, 65, 160},
     isalpha      |-> {32, 48, 49, 183},
     isdigit      |-> {32, 48, 66, 945},
     isidentifier |-> {33, 49, 50, 183, 946, 1633},
     isidentbody  |-> {51}]

CTypes == {UnicodeData, OddData}

\* the _ranges lines of class A
RangeMenu ==
    {NoAttr,
     Own(<<>>),
     Own(<< <<31, 33>>, <<65>> >>),
     Own(<< <<48, 50>>, <<49, 51>>, <<183>> >>),
     Own(<< <<122, 65>> >>),
     Own(<< <<66, 65>>, <<945, 946>>, <<178>> >>),
     Own(<< <<160>>, <<95>>, <<1632, 1633>> >>),
     Own(<< <<1114111>> >>),
     Own(<< <<1114112>> >>),
     Own(<< <<65, 66>>, <<-1, 0>> >>)}

\* the same _ranges line with every (x,) written (x, x)
TwoTuples(r) ==
    [r EXCEPT !.list = [i \in DOMAIN r.list |->
                          IF Len(r.list[i]) = 1
                          THEN <<r.list[i][1], r.list[i][1]>> ELSE r.list[i]]]

InitChars ==
    /\ \/ /\ bases = Pair
          /\ \E r \in RangeMenu :
                ranges = [unicode_set |-> Own(<<>>), A |-> r, B |-> TwoTuples(r)]
          /\ ctype \in CTypes
       \/ /\ bases \in {Diamond, TwoParents}
          /\ ranges \in ValidRanges(bases)
          /\ ctype = UnicodeData
    /\ mro = [c \in DOMAIN bases |-> Mro(bases, c)]
    /\ limit = MaxCharReads
    /\ InitCaches

SpecChars == InitChars /\ [][Next]_vars

(***************************************************************************)
(* Two threads in __get__ for the same property of the same class, one     *)
(* step of the method at a time.  fn(cls) itself runs as one step.         *)
(***************************************************************************)
Threads == {1, 2}

Caches == [intern |-> intern, heap |-> heap, computes |-> computes]

SetCaches(st) ==
    /\ intern' = st.intern
    /\ heap' = st.heap
    /\ computes' = st.computes

Entered(c, p) ==
    [pc |-> "check", cls |-> c, prop |-> p, ok |-> TRUE, val |-> <<>>, err |-> ""]

\* the classes read before the threads start: none, or one class's _chars_for_ranges
Warmed(L, pre) ==
    LET cold == [intern |-> [c \in DOMAIN L |-> 0], heap |-> <<>>,
                 computes |-> [k \in (DOMAIN L) \X Props |-> 0]]
    IN  IF pre = "" THEN cold ELSE Get(cold, pre, "_chars_for_ranges").st

InitThreads ==
    /\ \E L \in Lattices :
          /\ bases = L
          /\ mro = [c \in DOMAIN L |-> Mro(L, c)]
          /\ ranges \in ThreadRanges(L)
    /\ ctype = UnicodeData
    /\ limit = 0
    /\ nreads = 0
    /\ last = NoReads
    /\ \E c \in Classes, p \in Props : th = [t \in Threads |-> Entered(c, p)]
    /\ \E pre \in {"", Root, "A"} :
          LET st == Warmed(bases, pre)
          IN  intern = st.intern /\ heap = st.heap /\ computes = st.computes

Frame == UNCHANGED <<bases, mro, ranges, ctype, last, nreads, limit>>

\* lines 17-20: the condition of the first if
Check(t) ==
    /\ th[t].pc = "check"
    /\ th' = [th EXCEPT ![t].pc =
                IF NeedsOwnIntern(intern, th[t].cls) THEN "install" ELSE "member"]
    /\ UNCHANGED <<intern, heap, computes>>
    /\ Frame

\* line 21: cls._intern = {}
Install(t) ==
    /\ th[t].pc = "install"
    /\ SetCaches(InstallIntern(Caches, th[t].cls))
    /\ th' = [th EXCEPT ![t].pc = "member"]
    /\ Frame

\* line 23: attrname not in cls._intern
Member(t) ==
    /\ th[t].pc = "member"
    /\ th' = [th EXCEPT ![t].pc =
                IF th[t].prop \in DOMAIN heap[InternOf(intern, th[t].cls)]
                THEN "lookup" ELSE "compute"]
    /\ UNCHANGED <<intern, heap, computes>>
    /\ Frame

\* line 24, right-hand side: self.fn(cls)
Compute(t) ==
    /\ th[t].pc = "compute"
    /\ LET r == Fn(Counted(Caches, th[t].cls, th[t].prop), th[t].cls, th[t].prop)
       IN  /\ SetCaches(r.st)
           /\ th' = [th EXCEPT ![t].pc = IF r.ok THEN "store" ELSE "done",
                               ![t].ok = r.ok, ![t].val = r.val, ![t].err = r.err]
    /\ Frame

\* line 24, the assignment: cls._intern[attrname] = value
Store(t) ==
    /\ th[t].pc = "store"
    /\ SetCaches(StoreIntern(Caches, th[t].cls, th[t].prop, th[t].val))
    /\ th' = [th EXCEPT ![t].pc = "lookup"]
    /\ Frame

\* line 25: return cls._intern[attrname]
Lookup(t) ==
    /\ th[t].pc = "lookup"
    /\ LET r == LoadIntern(Caches, th[t].cls, th[t].prop)
       IN  th' = [th EXCEPT ![t].pc = "done", ![t].ok = r.ok, ![t].val = r.val,
                               ![t].err = r.err]
    /\ UNCHANGED <<intern, heap, computes>>
    /\ Frame

NextThreads ==
    \E t \in Threads :
        \/ Check(t)
        \/ Install(t)
        \/ Member(t)
        \/ Compute(t)
        \/ Store(t)
        \/ Lookup(t)

SpecThreads == InitThreads /\ [][NextThreads]_vars

(***************************************************************************)
(* What the claims speak of, stated without the code's own operators.      *)
(***************************************************************************)
RECURSIVE Lineage(_)
\* c and every class it is composed from
Lineage(c) == {c} \cup UNION {Lineage(bases[c][i]) : i \in DOMAIN bases[c]}

\* the own ranges of the classes of c's composition chain, the root left out
ChainRanges(c) ==
    UNION {SetOf(ranges[k].list) : k \in {k \in Lineage(c) \ {Root} : ranges[k].own}}

\* the codepoints the inclusive range rr covers: (x,) is (x, x)
Covers(rr) == IF Len(rr) = 1 THEN {rr[1]} ELSE {x \in rr[1]..rr[2] : TRUE}

Covered(c) == UNION {Covers(rr) : rr \in ChainRanges(c)}

Reversed(rr) == Len(rr) = 2 /\ rr[1] > rr[2]

InDomain(c) == \A x \in Covered(c) : x >= 0 /\ x <= 1114111

\* s lists exactly the elements of S, each once, ascending
AscendingOf(s, S) ==
    /\ SetOf(s) = S
    /\ \A i \in DOMAIN s : \A j \in DOMAIN s : i < j => s[i] < s[j]

HasEntry(c, p) == intern[c] # 0 /\ p \in DOMAIN heap[intern[c]]

Cached(c, p) == heap[intern[c]][p].val

ReadDone == last.cls # ""

\* the outcome of reading c.p now, as the caller sees it
Outcome(c, p) ==
    LET r == Get(Caches, c, p) IN [ok |-> r.ok, val |-> r.val, err |-> r.err]

(***************************************************************************)
(* C1. printables is exactly the characters of the full character set for  *)
(* which the whitespace predicate is false, ascending: none of them is     *)
(* whitespace and no non-whitespace character of the full set is missing.  *)
(***************************************************************************)
C1_PrintablesAreNonWhitespace ==
    \A c \in Classes :
        HasEntry(c, "printables") =>
            AscendingOf(Cached(c, "printables"),
                        {x \in Covered(c) : x \notin ctype.isspace})

(***************************************************************************)
(* C4. The full character set of a class is exactly the codepoints covered *)
(* by the own ranges of the class and of its ancestors before the root,    *)
(* each once, strictly ascending; classes that list the same parents in    *)
(* another order, with the same own ranges, have the same full set.        *)
(***************************************************************************)
SameButOrder(c, d) ==
    /\ SetOf(bases[c]) = SetOf(bases[d])
    /\ ranges[c] = ranges[d]

C4_FullCharacterSet ==
    /\ \A c \in Classes :
          HasEntry(c, "_chars_for_ranges") =>
              AscendingOf(Cached(c, "_chars_for_ranges"), Covered(c))
    /\ (ReadDone /\ last.prop = "_chars_for_ranges") =>
          \A d \in Classes :
              SameButOrder(last.cls, d) =>
                  Outcome(d, "_chars_for_ranges") =
                      [ok |-> last.ok, val |-> last.val, err |-> last.err]

\* D(B, C) has been read: its own range repeats C's, and A is reached twice
C4_Witness ==
    /\ bases = Diamond
    /\ \A c \in Classes : ranges[c].own
    /\ last.cls = "D" /\ last.prop = "_chars_for_ranges" /\ last.ok
    /\ Len(last.val) = 7

(***************************************************************************)
(* C5 as claimed: the first read of a derived property of a class that     *)
(* declares a range with lo > hi ends in an error.                         *)
(***************************************************************************)
HasReversed(c) == \E rr \in ChainRanges(c) : Reversed(rr)

C6_OneTupleIsTwoTuple ==
    ReadDone =>
        \A d \in Classes :
            (bases[d] = bases[last.cls]
                /\ TwoTuples(ranges[d]) = TwoTuples(ranges[last.cls])) =>
                    Outcome(d, last.prop) =
                        [ok |-> last.ok, val |-> last.val, err |-> last.err]

C6_Witness ==
    /\ ReadDone /\ last.cls = "A" /\ last.prop = "identbodychars" /\ last.ok
    /\ <<183>> \in SetOf(ranges["A"].list)
    /\ <<183, 183>> \in SetOf(ranges["B"].list)
    /\ 183 \in SetOf(last.val)

(***************************************************************************)
(* C7. Every character of identchars is also in identbodychars, which also *)
(* holds the ten ASCII digits and the middle dot, whatever the ranges and  *)
(* whatever the predicates answer.                                         *)
(***************************************************************************)
C7_IdentBodySuperset ==
    \A c \in Classes :
        HasEntry(c, "identbodychars") =>
            /\ HasEntry(c, "identchars")
            /\ SetOf(Cached(c, "identchars")) \subseteq SetOf(Cached(c, "identbodychars"))
            /\ (48..57) \cup {183} \subseteq SetOf(Cached(c, "identbodychars"))

\* an identifier-start character that the body predicate rejects
C7_Witness ==
    /\ ctype = OddData
    /\ HasEntry("A", "identbodychars")
    /\ 33 \in SetOf(Cached("A", "identchars"))
    /\ 33 \notin ctype.isidentbody

(***************************************************************************)
(* C8 as claimed: for a class with no ranges anywhere in its chain every   *)
(* read returns, and the full character set and every derived string are   *)
(* empty.                                                                  *)
(***************************************************************************)
NoRanges(c) == ChainRanges(c) = {}

C8_EmptyEverywhere ==
    (ReadDone /\ NoRanges(last.cls)) => last.ok /\ last.val = <<>>

(***************************************************************************)
(* C8 as amended: for such a class every read returns; the full character  *)
(* set, printables, alphas, nums and alphanums are empty; identchars is    *)
(* the fixed letters and underscore, and identbodychars those and the      *)
(* digits and the middle dot.                                              *)
(***************************************************************************)
C8_EmptyButIdentifiers ==
    (ReadDone /\ NoRanges(last.cls)) =>
        /\ last.ok
        /\ last.prop \notin {"identchars", "identbodychars"} => last.val = <<>>
        /\ last.prop = "identchars" =>
              AscendingOf(last.val,
                          (65..90) \cup (97..122) \cup {170, 181, 186} \cup (192..214)
                              \cup (216..246) \cup (248..255) \cup {95})
        /\ last.prop = "identbodychars" =>
              AscendingOf(last.val,
                          (48..57) \cup {183}
                              \cup (65..90) \cup (97..122) \cup {170, 181, 186}
                              \cup (192..214) \cup (216..246) \cup (248..255) \cup {95})

C8_Witness ==
    /\ ReadDone /\ last.cls = "A" /\ ~ranges["A"].own
    /\ last.prop = "identchars" /\ Len(last.val) = 118

(***************************************************************************)
(* C2. Single-threaded, for a class whose ranges are inside the codepoint  *)
(* space: fn runs at most once for a (class, property) pair, and exactly   *)
(* once for a pair that is cached; a read returns the stored value; a      *)
(* class's cache container, once installed, is never replaced, and no      *)
(* entry of a container is ever overwritten or removed.                    *)
(***************************************************************************)
C2_State ==
    /\ \A c \in Classes :
          /\ InDomain(c) => \A p \in Props : computes[<<c, p>>] <= 1
          /\ intern[c] # 0 => \A p \in DOMAIN heap[intern[c]] : computes[<<c, p>>] = 1
    /\ (ReadDone /\ last.ok) =>
          HasEntry(last.cls, last.prop) /\ last.val = Cached(last.cls, last.prop)

C2_Step ==
    /\ \A c \in Classes : intern[c] # 0 => intern'[c] = intern[c]
    /\ \A a \in DOMAIN heap :
          /\ a \in DOMAIN heap'
          /\ \A p \in DOMAIN heap[a] : p \in DOMAIN heap'[a] /\ heap'[a][p] = heap[a][p]

TotalComputes(n) ==
    Cardinality({k \in DOMAIN computes : computes[k] = 1}) = n
        /\ \A k \in DOMAIN computes : computes[k] <= 1

C3_State ==
    /\ \A c \in Classes :
          intern[c] # 0 =>
              /\ \A d \in Classes \ {c} : intern[d] # intern[c]
              /\ \A p \in DOMAIN heap[intern[c]] : heap[intern[c]][p].by = c
    /\ (ReadDone /\ last.ok) =>
          /\ HasEntry(last.cls, last.prop)
          /\ heap[intern[last.cls]][last.prop] = [val |-> last.val, by |-> last.cls]

C3_Step ==
    \A c \in Classes :
        (c # last'.cls /\ nreads' = nreads + 1) =>
            /\ intern'[c] = intern[c]
            /\ intern[c] # 0 => heap'[intern[c]] = heap[intern[c]]

C3_CacheIsolation == [](C3_State) /\ [][C3_Step]_vars

\* A read, then its descendant D: two containers, two different values
C3_Witness ==
    /\ nreads = 2 /\ last.cls = "D" /\ last.prop = "_chars_for_ranges" /\ last.ok
    /\ HasEntry("A", "_chars_for_ranges")
    /\ TotalComputes(2)
    /\ Cached("A", "_chars_for_ranges") # last.val

(***************************************************************************)
(* C9. A read on a class with a range outside the codepoint space fails    *)
(* with the error of chr(); it stores no entry anywhere and leaves every   *)
(* container of another class as it was; the class never has an entry, so  *)
(* every later read fails again.                                           *)
(***************************************************************************)
C9_State ==
    /\ (ReadDone /\ ~InDomain(last.cls)) => ~last.ok /\ last.err = "ValueError"
    /\ \A c \in Classes :
          (~InDomain(c) /\ intern[c] # 0) => DOMAIN heap[intern[c]] = {}

C9_Step ==
    ~last'.ok =>
        /\ \A a \in DOMAIN heap : heap'[a] = heap[a]
        /\ \A a \in DOMAIN heap' \ DOMAIN heap : DOMAIN heap'[a] = {}
        /\ \A c \in Classes \ {last'.cls} : intern'[c] = intern[c]

C9_FailedReadStoresNothing == [](C9_State) /\ [][C9_Step]_vars

\* a second failed read of the same property, after fn ran twice
C9_Witness ==
    /\ nreads = 2 /\ ~last.ok /\ last.prop = "alphanums"
    /\ computes[<<last.cls, "alphanums">>] = 2
    /\ computes[<<last.cls, "_chars_for_ranges">>] = 2

(***************************************************************************)
(* C10. Two threads reading the same property of the same class at once,   *)
(* their steps interleaved in any way: both reads return, with the same    *)
(* value, and afterwards the class's cache holds that value.               *)
(***************************************************************************)
C10_RaceIsBenign ==
    \A t \in DOMAIN th :
        th[t].pc = "done" =>
            /\ th[t].ok
            /\ \A u \in DOMAIN th :
                  th[u].pc = "done" =>
                      /\ th[u].val = th[t].val
                      /\ HasEntry(th[t].cls, th[t].prop)
                      /\ Cached(th[t].cls, th[t].prop) = th[t].val

====
